---- MODULE Spec2Model ----
(***************************************************************************)
(* State-machine model of src/melvin_visualizer_fb.py: the framebuffer      *)
(* visualizer's main loop (MelvinVisualizerFB.run), its ingestion worker    *)
(* thread (connect_to_socket / _run_demo_mode), the event queue between     *)
(* them and the scene state (entries, nodes, metrics, camera_theta).        *)
(*                                                                         *)
(* Numbers.  Python floats are modelled as fixed-point integers with three  *)
(* decimal digits (1.0 is Unit = 1000, so 0.2 is 200 and 0.8 is 800).  A    *)
(* product with a float literal is rounded to the nearest grid value, the   *)
(* way IEEE arithmetic rounds each operation to its own grid.  Integers of  *)
(* the program (node ids, counts) are plain integers.                       *)
(*                                                                         *)
(* Time.  time.time() is modelled in two ways: the difference of two        *)
(* successive readings in run() is a value of DeltaTimes, and a reading     *)
(* stored as a timestamp is the logical clock Now (the number of queue      *)
(* operations so far).                                                     *)
(*                                                                         *)
(* Specifications.  Spec is run() with its worker; FaultSpec adds feed      *)
(* lines of ill-typed values; StreamSpec divides a byte stream into reads;  *)
(* DeviceSpec, LineSpec are FramebufferDisplay alone; LogSpec, SmoothSpec,  *)
(* ShapeSpec, RenderSpec apply one method to sampled states; BusySpec is    *)
(* process_events against a feed that does not pause, under fair            *)
(* scheduling of the two threads.                                           *)
(***************************************************************************)
EXTENDS Integers, Sequences, FiniteSets, TLC

(* ------------------------------ bounds --------------------------------- *)

\* Events the worker may put on the queue from the real feed in one run.
MaxFeedPuts == 2
\* Iterations of the loop of _run_demo_mode in one run.
MaxDemoRounds == 1
\* Iterations of the main loop of run() in one run.
MaxTicks == 2
\* Calls of FramebufferDisplay.close() on one object in a run of DeviceSpec.
MaxCloses == 2
\* Log events of the run of LogSpec (more than the capacity of the deque).
MaxLogged == 600

(* ------------------------- program constants --------------------------- *)

Unit == 10 * 10 * 10

\* _init_nodes: num_nodes = 50
num_nodes == 50
\* deque(maxlen=500)
maxlen == 500
\* node.activation > 0.8
PULSE_THRESHOLD == 800
\* node.pulse_timer = 0.2
PULSE_RESET == 200
\* (node.activation - node.brightness) * 0.15
SMOOTHING == 150
\* self.camera_theta += delta_time * 0.3
CAMERA_RATE == 300

NodeIds == 0 .. (num_nodes - 1)

\* types = ["thought", "perception", "learning", "context"]
types == <<"thought", "perception", "learning", "context">>

LogTypes == {types[i] : i \in 1 .. Len(types)}

(* ------------------------------ helpers -------------------------------- *)

\* n / d rounded to the nearest integer (d > 0), halves away from zero.
RoundDiv(n, d) ==
    IF n >= 0 THEN (2 * n + d) \div (2 * d)
              ELSE -((2 * (-n) + d) \div (2 * d))

\* x * f for a float literal f given in thousandths.
MulFix(x, f) == RoundDiv(x * f, Unit)

\* dict.get(key, default) on a decoded record (a function on its keys).
Get(event, key, default) ==
    IF key \in DOMAIN event THEN event[key] ELSE default

(* ------------------------------- state --------------------------------- *)

VARIABLES
    pcMain,        \* position of run() in the main thread
    running,       \* self.running
    fb_mem,        \* self.fb.fb_mem: "None", "mapped" or "closed"
    fb_fd,         \* self.fb.fb_fd: None ({}) or a descriptor ({fd})
    info,          \* self.fb.info: None ({}) or a FramebufferInfo ({g})
    fb_bytes,      \* the bytes of the mapped device memory, by offset
    os_fds,        \* descriptors of the device the process holds open
    nClose,        \* history: calls of FramebufferDisplay.close
    lastCall,      \* history: the last FramebufferDisplay call
    drawn,         \* history: the last composite drawing call, its
                   \* arguments and the drawing calls it made, in order
    raised,        \* the exception that left the last call ("None" if none)
    drainMark,     \* history: events put so far when the running
                   \* process_events began (0 outside process_events)
    delta_time,    \* run()'s local delta_time
    frame_count,   \* run()'s local frame_count
    event_queue,   \* self.event_queue (queue.Queue)
    entries,       \* self.entries (deque(maxlen=500))
    nodes,         \* self.nodes: id -> GraphNode state
    pos,           \* self.nodes: id -> GraphNode position (x, y, z)
    metrics,       \* self.metrics
    camera_theta,  \* self.camera_theta
    pcWorker,      \* position of the socket thread
    lines,         \* the lines of the last recv() still to be decoded
    stream,        \* the bytes of the feed: [data, pos], pos bytes read
    putLog,        \* history: every event put on the queue, with its origin
    applied,       \* history: every event taken off the queue
    logged,        \* history: every LogEntry appended to entries
    nConnect,      \* history: calls of sock.connect
    nDemo,         \* history: calls of _run_demo_mode
    nRounds        \* history: iterations of the loop of _run_demo_mode

vars == <<pcMain, running, fb_mem, fb_fd, info, fb_bytes, os_fds, nClose,
          lastCall, drawn, raised, drainMark, delta_time, frame_count,
          event_queue, entries, nodes, pos, metrics, camera_theta, pcWorker,
          lines, stream,
          putLog, applied, logged, nConnect, nDemo, nRounds>>

deviceVars == <<fb_fd, info, fb_bytes, os_fds, nClose, lastCall, drawn>>

sceneVars == <<entries, nodes, pos, metrics, camera_theta, logged>>

mainVars == <<pcMain, running, fb_mem, delta_time, frame_count, drainMark,
              raised, deviceVars>>

workerVars == <<pcWorker, lines, stream, nConnect, nDemo, nRounds>>

\* Logical reading of time.time() stored in a timestamp.
Now == Len(putLog) + Len(applied)

(* ----------------------------- data model ------------------------------ *)

\* GraphNode(id, x, y, z): activation = brightness = pulse_timer = 0.0
GraphNode == [activation |-> 0, brightness |-> 0, pulse_timer |-> 0]

\* The x, y, z that _init_nodes gives node i: a point of the unit sphere,
\* z = cos(acos(2 * i / num_nodes - 1)), in thousandths.
NodePositions ==
    << <<0, 0, -1000>>, <<278, 35, -960>>, <<380, 97, -920>>,
       <<442, 175, -880>>, <<475, 261, -840>>, <<485, 353, -800>>,
       <<474, 445, -760>>, <<442, 535, -720>>, <<393, 619, -680>>,
       <<327, 695, -640>>, <<247, 761, -600>>, <<155, 814, -560>>,
       <<54, 852, -520>>, <<-55, 876, -480>>, <<-168, 882, -440>>,
       <<-283, 872, -400>>, <<-397, 844, -360>>, <<-508, 800, -320>>,
       <<-612, 740, -280>>, <<-708, 665, -240>>, <<-793, 576, -200>>,
       <<-865, 476, -160>>, <<-923, 365, -120>>, <<-965, 248, -80>>,
       <<-991, 125, -40>>, <<-1000, 0, 0>>, <<-991, -125, 40>>,
       <<-965, -248, 80>>, <<-923, -365, 120>>, <<-865, -476, 160>>,
       <<-793, -576, 200>>, <<-708, -665, 240>>, <<-612, -740, 280>>,
       <<-508, -800, 320>>, <<-397, -844, 360>>, <<-283, -872, 400>>,
       <<-168, -882, 440>>, <<-55, -876, 480>>, <<54, -852, 520>>,
       <<155, -814, 560>>, <<247, -761, 600>>, <<327, -695, 640>>,
       <<393, -619, 680>>, <<442, -535, 720>>, <<474, -445, 760>>,
       <<485, -353, 800>>, <<475, -261, 840>>, <<442, -175, 880>>,
       <<380, -97, 920>>, <<278, -35, 960>> >>

Position(x, y, z) == [x |-> x, y |-> y, z |-> z]

\* _init_nodes(): the positions of the num_nodes nodes.
_init_nodes ==
    [i \in NodeIds |->
        Position(NodePositions[i + 1][1], NodePositions[i + 1][2],
                 NodePositions[i + 1][3])]

\* SystemMetrics(): the dataclass defaults
SystemMetrics ==
    [cpu_usage |-> 0, gpu_usage |-> 0, ram_usage |-> 0, tick_rate |-> 0,
     active_nodes |-> 0, total_edges |-> 0, mean_error |-> 0,
     status |-> "IDLE"]

(* ------------------------- SceneState operations ------------------------ *)

\* Variant: at capacity the newest entry is replaced instead of the oldest.
deque_append_newest(d, x) ==
    IF Len(d) >= maxlen THEN Append(SubSeq(d, 1, Len(d) - 1), x)
                        ELSE Append(d, x)

\* deque.append on a deque(maxlen=500): at capacity the oldest entry goes.
deque_append(d, x) ==
    IF Len(d) >= maxlen THEN Append(Tail(d), x) ELSE Append(d, x)

\* LogEntry(timestamp=..., context_id=..., event_type=..., message=...)
LogEntry(event, event_type, now) ==
    [timestamp  |-> Get(event, "timestamp", now),
     context_id |-> Get(event, "context", "main"),
     event_type |-> event_type,
     message    |-> Get(event, "text", "")]

\* Variant: the pulse is raised to 0.2 (max) instead of reset to it.
SetActivationMax(node, a) ==
    [node EXCEPT !.activation = a,
                 !.pulse_timer = IF a > PULSE_THRESHOLD
                                 THEN (IF @ >= PULSE_RESET THEN @ ELSE PULSE_RESET)
                                 ELSE @]

\* node.activation = a; if node.activation > 0.8: node.pulse_timer = 0.2
SetActivation(node, a) ==
    [node EXCEPT !.activation = a,
                 !.pulse_timer = IF a > PULSE_THRESHOLD THEN PULSE_RESET ELSE @]

\* Variant: an id past the last node is taken modulo the number of nodes.
GraphUpdateWrap(ns, event) ==
    LET node_id == Get(event, "node_id", 0) % num_nodes IN
    [ns EXCEPT ![node_id] = SetActivation(@, Get(event, "activation", 0))]

\* The graph_update branch of process_events.
GraphUpdate(ns, event) ==
    LET node_id == Get(event, "node_id", 0) IN
    IF node_id \in DOMAIN ns
    THEN [ns EXCEPT ![node_id] = SetActivation(@, Get(event, "activation", 0))]
    ELSE ns

\* The metric branch of process_events: SystemMetrics(cpu_usage=..., ...);
\* gpu_usage and ram_usage are not passed and take the dataclass defaults.
MetricUpdate(event) ==
    [SystemMetrics EXCEPT
        !.cpu_usage    = Get(event, "cpu", 0),
        !.tick_rate    = Get(event, "tick_rate", 0),
        !.active_nodes = Get(event, "active_nodes", 0),
        !.total_edges  = Get(event, "total_edges", 0),
        !.mean_error   = Get(event, "mean_error", 0),
        !.status       = Get(event, "status", "IDLE")]

\* Variant: a smoothing factor of 1.15 instead of 0.15.
SmoothOvershoot(brightness, activation) ==
    brightness + MulFix(activation - brightness, Unit + SMOOTHING)

\* node.brightness += (node.activation - node.brightness) * 0.15
Smooth(brightness, activation) ==
    brightness + MulFix(activation - brightness, SMOOTHING)

\* if node.pulse_timer > 0: node.pulse_timer -= delta_time
Decay(pulse_timer, dt) ==
    IF pulse_timer > 0 THEN pulse_timer - dt ELSE pulse_timer

\* The loop of update_nodes over self.nodes.values().
update_nodes(ns, dt) ==
    [n \in DOMAIN ns |->
        [ns[n] EXCEPT !.brightness  = Smooth(@, ns[n].activation),
                      !.pulse_timer = Decay(@, dt)]]

(* ------------------------------- inputs -------------------------------- *)

\* Differences of two successive time.time() readings: a slow frame (0.3 s)
\* and a wall clock that was set back by as much between the two readings
\* (time.time() is not monotonic).
DeltaTimes == {300, -300}

GraphUpdateRecord(id, a) ==
    [type |-> "graph_update", node_id |-> id, activation |-> a]

\* Decoded records the real feed may send (it is not under the program's
\* control: an id outside the node set and an activation outside [0,1] are
\* among them).
FeedRecords ==
    { [type |-> "thought", text |-> "hello", context |-> "vision",
       timestamp |-> 7],
      GraphUpdateRecord(0, 950),
      GraphUpdateRecord(0, PULSE_THRESHOLD),
      GraphUpdateRecord(num_nodes, 950),
      GraphUpdateRecord(num_nodes - 1, 10 * Unit),
      [type |-> "metric", cpu |-> 55200, gpu |-> 40000, ram |-> 60000,
       tick_rate |-> 20000, active_nodes |-> 30, total_edges |-> 120,
       mean_error |-> 10, status |-> "ACTIVE"],
      [type |-> "metric", cpu |-> 30000] }

\* JSON values of another type than the program expects.  A string where a
\* number is expected and a list where a node id is expected are written as
\* two integers outside every range of the samples; a decoded value that is
\* not an object is a record with the one field value.
StrValue == 0 - Unit * Unit

ListValue == StrValue - 1

IsNumber(v) == v \notin {StrValue, ListValue}

Hashable(v) == v # ListValue

IsObject(v) == "value" \notin DOMAIN v

\* Lines that json.loads decodes without error to such values: the array
\* [1, 2], a graph_update with "activation": "high", and a graph_update
\* with "node_id": [1].
FaultRecords ==
    { [value |-> "[1, 2]"],
      GraphUpdateRecord(0, StrValue),
      GraphUpdateRecord(ListValue, 950) }

FaultChunks == {<<[json |-> TRUE, obj |-> r]>> : r \in FaultRecords}

\* A line of the feed: text that json.loads decodes to obj, or text on
\* which it raises JSONDecodeError.
FeedLines ==
    {[json |-> TRUE, obj |-> r] : r \in FeedRecords}
        \cup {[json |-> FALSE, obj |-> <<>>]}

\* What one sock.recv(4096) can deliver after strip().split('\n'): one line
\* of the feed, or two lines that arrived together.
Chunks ==
    {<<l>> : l \in FeedLines}
        \cup {<<[json |-> TRUE, obj |-> GraphUpdateRecord(0, 950)],
                [json |-> TRUE, obj |-> GraphUpdateRecord(0, PULSE_THRESHOLD)]>>}

\* Samples of the random draws of _run_demo_mode.
DemoTypes == {types[4]}

DemoMessages == {"Analyzing visual input"}

DemoNodeIds == {0, num_nodes - 1}

DemoActivations == {500, 999}

DemoMetrics ==
    { [type |-> "metric", cpu |-> 30000 + c, tick_rate |-> 15000,
       active_nodes |-> 20, total_edges |-> 100, mean_error |-> 50,
       status |-> s] : c \in {0}, s \in {"LEARNING"} }

(* --------------------------- device buffer ----------------------------- *)

\* An optional value (None or a value) is a set of at most one element.
The(opt) == CHOOSE v \in opt : TRUE

FramebufferInfo(width, height, bpp, line_length) ==
    [width |-> width, height |-> height, bpp |-> bpp,
     line_length |-> line_length]

\* Descriptor and geometry of the device in a run of run().
RunFds == {3}

RunGeometries == {FramebufferInfo(2, 2, 32, 8)}

\* A FramebufferDisplay call and its arguments (zero where it has none).
Call(op, x, y, color) == [op |-> op, x |-> x, y |-> y, color |-> color]

NoArgs(op) == Call(op, 0, 0, <<0, 0, 0>>)

\* A composite drawing call, its arguments and the calls it made in order.
Drawing(op, args, calls) == [op |-> op, args |-> args, calls |-> calls]

NoDrawing == Drawing("none", <<>>, <<>>)

\* The device memory right after mmap: fb_size = line_length * height bytes.
Mapped(g) == [i \in 0 .. (g.line_length * g.height - 1) |-> 0]

\* FramebufferDisplay.__init__
Unopened ==
    /\ fb_mem = "None"
    /\ fb_fd = {}
    /\ info = {}
    /\ fb_bytes = <<>>
    /\ os_fds = {}
    /\ nClose = 0
    /\ lastCall = NoArgs("none")
    /\ drawn = NoDrawing
    /\ raised = "None"

\* The state after a successful open() on descriptor fd with geometry g.
Opened(fd, g) ==
    /\ fb_mem = "mapped"
    /\ fb_fd = {fd}
    /\ info = {g}
    /\ fb_bytes = Mapped(g)
    /\ os_fds = {fd}
    /\ nClose = 0
    /\ lastCall = NoArgs("open")
    /\ drawn = NoDrawing
    /\ raised = "None"

\* Where open() can leave its try block: os.open raises, an ioctl raises,
\* mmap raises, or none does.
OpenOutcomes == {"open_fails", "ioctl_fails", "mmap_fails", "ok"}

\* FramebufferDisplay.open(): the assignments made before the outcome's
\* raise stay; except Exception returns False, so open() itself never raises.
fb_open(outcome, fd, g) ==
    /\ fb_fd' = IF outcome = "open_fails" THEN fb_fd ELSE {fd}
    /\ os_fds' = IF outcome = "open_fails" THEN os_fds ELSE os_fds \cup {fd}
    /\ info' = IF outcome \in {"mmap_fails", "ok"} THEN {g} ELSE info
    /\ fb_mem' = IF outcome = "ok" THEN "mapped" ELSE fb_mem
    /\ fb_bytes' = IF outcome = "ok" THEN Mapped(g) ELSE fb_bytes
    /\ lastCall' = NoArgs("open")
    /\ raised' = "None"
    /\ UNCHANGED <<nClose, drawn>>

\* Truth value of self.fb_mem: None is false, a live mmap is true (its
\* length is positive), a closed mmap raises ValueError from len().
MemTruth(mem) ==
    IF mem = "None" THEN "false" ELSE IF mem = "mapped" THEN "true"
    ELSE "ValueError"

\* Truth value of self.fb_fd: None and descriptor 0 are false.
FdTruth(fd) == fd # {} /\ fd # {0}

\* The exception close() raises, "None" if none: the test of a closed mmap,
\* or os.close() on a descriptor that is not open.
CloseRaises(mem, fd, fds) ==
    IF MemTruth(mem) = "ValueError" THEN "ValueError"
    ELSE IF FdTruth(fd) /\ ~(fd \subseteq fds) THEN "OSError"
    ELSE "None"

\* FramebufferDisplay.close(), called while exception exc is propagating
\* ("None" if none).
fb_close(exc) ==
    LET err == CloseRaises(fb_mem, fb_fd, os_fds) IN
    /\ fb_mem' = IF MemTruth(fb_mem) = "true" THEN "closed" ELSE fb_mem
    /\ os_fds' = IF MemTruth(fb_mem) # "ValueError" /\ FdTruth(fb_fd)
                 THEN os_fds \ fb_fd ELSE os_fds
    /\ nClose' = nClose + 1
    /\ lastCall' = NoArgs("close")
    /\ raised' = IF err # "None" THEN err ELSE exc
    /\ UNCHANGED <<fb_fd, info, fb_bytes, drawn>>

\* fb_size = self.info.line_length * self.info.height
Size(g) == g.line_length * g.height

\* struct.pack('BBBB', b, g, r, 255) for color = (r, g, b)
Pixel(color) == <<color[3], color[2], color[1], 255>>

\* fb_mem.seek(offset); fb_mem.write(data), where the data fits.
Write(bytes, offset, data) ==
    [i \in DOMAIN bytes |->
        IF offset <= i /\ i < offset + Len(data)
        THEN data[i - offset + 1]
        ELSE bytes[i]]

\* Variant: the offset of a buffer without row padding.
PixelOffsetPacked(x, y, g) == (y * g.width + x) * 4

\* offset = y * self.info.line_length + x * 4
PixelOffset(x, y, g) == y * g.line_length + x * 4

\* FramebufferDisplay.draw_pixel(x, y, color).  seek and write raise
\* ValueError where the four bytes do not fit in the mapping.
fb_draw_pixel(x, y, color) ==
    /\ lastCall' = Call("draw_pixel", x, y, color)
    /\ IF MemTruth(fb_mem) = "ValueError"
       THEN raised' = "ValueError" /\ UNCHANGED fb_bytes
       ELSE IF \/ MemTruth(fb_mem) = "false"
               \/ x < 0 \/ y < 0
               \/ x >= The(info).width \/ y >= The(info).height
       THEN raised' = "None" /\ UNCHANGED fb_bytes
       ELSE LET offset == PixelOffset(x, y, The(info)) IN
            IF offset + 4 <= Size(The(info))
            THEN /\ fb_bytes' = Write(fb_bytes, offset, Pixel(color))
                 /\ raised' = "None"
            ELSE raised' = "ValueError" /\ UNCHANGED fb_bytes
    /\ UNCHANGED <<fb_mem, fb_fd, info, os_fds, nClose, drawn>>

\* FramebufferDisplay.clear(color): width * height pixels are written one
\* after the other from offset 0; the write that does not fit raises
\* ValueError and the writes before it stay.
fb_clear(color) ==
    /\ lastCall' = Call("clear", 0, 0, color)
    /\ IF MemTruth(fb_mem) = "ValueError"
       THEN raised' = "ValueError" /\ UNCHANGED fb_bytes
       ELSE IF MemTruth(fb_mem) = "false"
       THEN raised' = "None" /\ UNCHANGED fb_bytes
       ELSE LET g == The(info)
                n == g.width * g.height
                fit == Size(g) \div 4
                written == IF n <= fit THEN n ELSE fit
            IN /\ fb_bytes' = [i \in DOMAIN fb_bytes |->
                                  IF i < 4 * written
                                  THEN Pixel(color)[(i % 4) + 1]
                                  ELSE fb_bytes[i]]
               /\ raised' = IF n <= fit THEN "None" ELSE "ValueError"
    /\ UNCHANGED <<fb_mem, fb_fd, info, os_fds, nClose, drawn>>

(* ------------------------------ main loop ------------------------------ *)

Init ==
    /\ pcMain = "start"
    /\ running = FALSE
    /\ Unopened
    /\ drainMark = 0
    /\ delta_time = 0
    /\ frame_count = 0
    /\ event_queue = <<>>
    /\ entries = <<>>
    /\ nodes = [n \in NodeIds |-> GraphNode]
    /\ pos = _init_nodes
    /\ metrics = SystemMetrics
    /\ camera_theta = 0
    /\ pcWorker = "unstarted"
    /\ lines = <<>>
    /\ stream = [data |-> <<>>, pos |-> 0]
    /\ putLog = <<>>
    /\ applied = <<>>
    /\ logged = <<>>
    /\ nConnect = 0
    /\ nDemo = 0
    /\ nRounds = 0

\* run(): self.fb.open() succeeds.
OpenOk ==
    /\ pcMain = "start"
    /\ \E fd \in RunFds, g \in RunGeometries : fb_open("ok", fd, g)
    /\ pcMain' = "opened"
    /\ UNCHANGED <<running, delta_time, frame_count, drainMark, event_queue,
                   sceneVars, workerVars, putLog, applied>>

\* run(): self.fb.open() returns False; run() prints and returns.
OpenFail ==
    /\ pcMain = "start"
    /\ \E outcome \in OpenOutcomes \ {"ok"}, fd \in RunFds,
          g \in RunGeometries : fb_open(outcome, fd, g)
    /\ pcMain' = "done"
    /\ UNCHANGED <<running, delta_time, frame_count, drainMark, event_queue,
                   sceneVars, workerVars, putLog, applied>>

\* run(): self.running = True; socket_thread.start(); the try block begins.
StartWorker ==
    /\ pcMain = "opened"
    /\ running' = TRUE
    /\ pcWorker' = "connect"
    /\ pcMain' = "tick"
    /\ UNCHANGED <<fb_mem, delta_time, frame_count, drainMark, raised,
                   deviceVars, event_queue, sceneVars, lines, stream, putLog,
                   applied, nConnect, nDemo, nRounds>>

\* run(): socket_thread.start() raises RuntimeError (the system cannot start
\* a new thread); the statement is before the try block, so run() is left
\* by the exception at once.
StartFail ==
    /\ pcMain = "opened"
    /\ running' = TRUE
    /\ raised' = "RuntimeError"
    /\ pcMain' = "done"
    /\ UNCHANGED <<fb_mem, delta_time, frame_count, drainMark, deviceVars,
                   event_queue, sceneVars, workerVars, putLog, applied>>

\* finally: self.running = False; self.fb.close(); run() is left, by the
\* exception exc if one is propagating ("None" if none).
FinallyBlock(exc) ==
    /\ running' = FALSE
    /\ fb_close(exc)
    /\ drainMark' = 0
    /\ pcMain' = "done"

\* while self.running: delta_time = current_time - last_time
Tick ==
    /\ pcMain = "tick"
    /\ frame_count < MaxTicks
    /\ IF running
       THEN /\ \E dt \in DeltaTimes : delta_time' = dt
            /\ drainMark' = Len(putLog)
            /\ pcMain' = "drain"
            /\ UNCHANGED <<running, fb_mem, raised, deviceVars>>
       ELSE /\ FinallyBlock("None")
            /\ UNCHANGED delta_time
    /\ UNCHANGED <<frame_count, event_queue, sceneVars, workerVars, putLog,
                   applied>>

\* Variant: a LIFO queue, the newest event comes off first.
get_newest(q) == <<q[Len(q)], SubSeq(q, 1, Len(q) - 1)>>

\* queue.Queue.get_nowait(): the oldest event and the rest of the queue.
get_nowait(q) == <<Head(q), Tail(q)>>

\* The exception one iteration of process_events raises on event, "None"
\* if none: event.get on a value that is no dict, node_id in self.nodes on
\* an unhashable id, node.activation > 0.8 on a value that is no number.
Raises(event) ==
    IF ~IsObject(event) THEN "AttributeError"
    ELSE IF Get(event, "type", "") # "graph_update" THEN "None"
    ELSE IF ~Hashable(Get(event, "node_id", 0)) THEN "TypeError"
    ELSE IF /\ Get(event, "node_id", 0) \in NodeIds
            /\ ~IsNumber(Get(event, "activation", 0))
         THEN "TypeError"
    ELSE "None"

\* process_events: one iteration of the while loop on a non-empty queue.
DrainApply ==
    /\ pcMain = "drain"
    /\ event_queue # <<>>
    /\ Raises(Head(event_queue)) = "None"
    /\ LET got == get_nowait(event_queue)
           event == got[1]
           event_type == Get(event, "type", "")
       IN /\ event_queue' = got[2]
          /\ applied' = Append(applied, event)
          /\ IF event_type \in LogTypes
             THEN LET entry == LogEntry(event, event_type, Now) IN
                  /\ entries' = deque_append(entries, entry)
                  /\ logged' = Append(logged, entry)
                  /\ UNCHANGED <<nodes, metrics>>
             ELSE IF event_type = "graph_update"
             THEN /\ nodes' = GraphUpdate(nodes, event)
                  /\ UNCHANGED <<entries, logged, metrics>>
             ELSE IF event_type = "metric"
             THEN /\ metrics' = MetricUpdate(event)
                  /\ UNCHANGED <<entries, logged, nodes>>
             ELSE UNCHANGED <<entries, logged, nodes, metrics>>
    /\ UNCHANGED <<mainVars, pos, camera_theta, workerVars, putLog>>

\* process_events: the iteration raises.  process_events catches only
\* queue.Empty and run() only KeyboardInterrupt, so the exception leaves
\* both through the finally block.  node.activation is assigned before the
\* comparison that raises.
DrainRaise ==
    /\ pcMain = "drain"
    /\ event_queue # <<>>
    /\ LET got == get_nowait(event_queue)
           event == got[1]
           exc == Raises(event)
       IN /\ exc # "None"
          /\ event_queue' = got[2]
          /\ applied' = Append(applied, event)
          /\ nodes' = IF IsObject(event) /\ Hashable(Get(event, "node_id", 0))
                      THEN GraphUpdate(nodes, event)
                      ELSE nodes
          /\ FinallyBlock(exc)
    /\ UNCHANGED <<delta_time, frame_count, entries, pos, metrics,
                   camera_theta, logged, workerVars, putLog>>

\* Variant: after process_events the loop goes straight to render_frame.
DrainDoneSkipAdvance ==
    /\ pcMain = "drain"
    /\ event_queue = <<>>
    /\ drainMark' = 0
    /\ pcMain' = "render"
    /\ UNCHANGED <<running, fb_mem, delta_time, frame_count, raised,
                   deviceVars, event_queue, sceneVars, workerVars, putLog,
                   applied>>

\* process_events: the queue is empty, the while loop ends.
DrainDone ==
    /\ pcMain = "drain"
    /\ event_queue = <<>>
    /\ drainMark' = 0
    /\ pcMain' = "advance"
    /\ UNCHANGED <<running, fb_mem, delta_time, frame_count, raised,
                   deviceVars, event_queue, sceneVars, workerVars, putLog,
                   applied>>

\* Variant: update_nodes also takes the next event off the queue.
AdvanceDrains ==
    /\ pcMain = "advance"
    /\ nodes' = update_nodes(nodes, delta_time)
    /\ camera_theta' = camera_theta + MulFix(delta_time, CAMERA_RATE)
    /\ IF event_queue # <<>>
       THEN /\ event_queue' = Tail(event_queue)
            /\ applied' = Append(applied, Head(event_queue))
       ELSE UNCHANGED <<event_queue, applied>>
    /\ pcMain' = "render"
    /\ UNCHANGED <<running, fb_mem, delta_time, frame_count, drainMark,
                   raised, deviceVars, entries, pos, metrics, logged,
                   workerVars, putLog>>

\* self.update_nodes(delta_time)
Advance ==
    /\ pcMain = "advance"
    /\ nodes' = update_nodes(nodes, delta_time)
    /\ camera_theta' = camera_theta + MulFix(delta_time, CAMERA_RATE)
    /\ pcMain' = "render"
    /\ UNCHANGED <<running, fb_mem, delta_time, frame_count, drainMark,
                   raised, deviceVars, event_queue, entries, pos, metrics,
                   logged, workerVars, putLog, applied>>

\* self.render_frame(); frame_count += 1; time.sleep(0.033)
Render ==
    /\ pcMain = "render"
    /\ frame_count' = frame_count + 1
    /\ pcMain' = "tick"
    /\ UNCHANGED <<running, fb_mem, delta_time, drainMark, raised,
                   deviceVars, event_queue, sceneVars, workerVars, putLog,
                   applied>>

\* KeyboardInterrupt anywhere inside the try block of run(): the except
\* clause prints, then the finally block runs.
Interrupt ==
    /\ pcMain \in {"tick", "drain", "advance", "render"}
    /\ FinallyBlock("None")
    /\ UNCHANGED <<delta_time, frame_count, event_queue, sceneVars,
                   workerVars, putLog, applied>>

\* main(): visualizer.run() returns and the interpreter exits with status
\* 0, or an exception leaves run() and main() and it exits with status 1.
ExitStatus == IF raised = "None" THEN 0 ELSE 1

Main ==
    \/ OpenOk
    \/ OpenFail
    \/ StartWorker
    \/ StartFail
    \/ Tick
    \/ DrainApply
    \/ DrainDone
    \/ Advance
    \/ Render
    \/ Interrupt

(* -------------------------- ingestion worker --------------------------- *)

\* Variant: a queue of one slot, a put on a queue that holds an event is
\* dropped.
put_if_empty(q, event) == IF q = <<>> THEN Append(q, event) ELSE q

\* self.event_queue.put(event): the event joins the tail of the queue.
put(q, event) == Append(q, event)

\* json.loads(line): <<TRUE, object>>, or <<FALSE, _>> for JSONDecodeError.
json_loads(line) == <<line.json, line.obj>>

\* sock.connect("/tmp/melvin_feed.sock") succeeds.
ConnectOk ==
    /\ pcWorker = "connect"
    /\ nConnect' = nConnect + 1
    /\ pcWorker' = "recv"
    /\ UNCHANGED <<mainVars, event_queue, sceneVars, lines, stream, putLog,
                   applied,
                   nDemo, nRounds>>

\* Variant: a failed connect is retried instead of falling back.
ConnectFailRetry ==
    /\ pcWorker = "connect"
    /\ nConnect < 3
    /\ nConnect' = nConnect + 1
    /\ pcWorker' = "connect"
    /\ UNCHANGED <<mainVars, event_queue, sceneVars, lines, stream, putLog,
                   applied,
                   nDemo, nRounds>>

\* socket() or connect() raises: except Exception: self._run_demo_mode()
ConnectFail ==
    /\ pcWorker = "connect"
    /\ nConnect' = nConnect + 1
    /\ nDemo' = nDemo + 1
    /\ pcWorker' = "demo"
    /\ UNCHANGED <<mainVars, event_queue, sceneVars, lines, stream, putLog,
                   applied,
                   nRounds>>

\* while self.running is false: the loop ends, sock.close(), the thread ends.
RecvLoopExit ==
    /\ pcWorker = "recv"
    /\ ~running
    /\ pcWorker' = "stopped"
    /\ UNCHANGED <<mainVars, event_queue, sceneVars, lines, stream, putLog,
                   applied,
                   nConnect, nDemo, nRounds>>

\* data = sock.recv(4096).decode('utf-8') returns text.
RecvData ==
    /\ pcWorker = "recv"
    /\ running
    /\ Len(putLog) < MaxFeedPuts
    /\ \E chunk \in Chunks : lines' = chunk
    /\ pcWorker' = "lines"
    /\ UNCHANGED <<mainVars, event_queue, sceneVars, stream, putLog, applied,
                   nConnect, nDemo, nRounds>>

\* data = sock.recv(4096).decode('utf-8') returns a line that decodes to a
\* value of FaultRecords.
RecvFault ==
    /\ pcWorker = "recv"
    /\ running
    /\ Len(putLog) < MaxFeedPuts
    /\ \E chunk \in FaultChunks : lines' = chunk
    /\ pcWorker' = "lines"
    /\ UNCHANGED <<mainVars, event_queue, sceneVars, stream, putLog, applied,
                   nConnect, nDemo, nRounds>>

\* Variant: a failed read reaches the outer handler and starts the demo.
RecvFailFallback ==
    /\ pcWorker = "recv"
    /\ running
    /\ nDemo' = nDemo + 1
    /\ pcWorker' = "demo"
    /\ UNCHANGED <<mainVars, event_queue, sceneVars, lines, stream, putLog,
                   applied,
                   nConnect, nRounds>>

\* recv or decode raises: except Exception: time.sleep(1)
RecvFail ==
    /\ pcWorker = "recv"
    /\ running
    /\ pcWorker' = "sleep"
    /\ UNCHANGED <<mainVars, event_queue, sceneVars, lines, stream, putLog,
                   applied,
                   nConnect, nDemo, nRounds>>

\* time.sleep(1) returns; back to the loop test on the same socket.
Backoff ==
    /\ pcWorker = "sleep"
    /\ pcWorker' = "recv"
    /\ UNCHANGED <<mainVars, event_queue, sceneVars, lines, stream, putLog,
                   applied,
                   nConnect, nDemo, nRounds>>

\* Variant: at the end of the stream the worker connects again.
RecvEOFReconnect ==
    /\ pcWorker = "recv"
    /\ running
    /\ pcWorker' = "connect"
    /\ UNCHANGED <<mainVars, event_queue, sceneVars, lines, stream, putLog,
                   applied,
                   nConnect, nDemo, nRounds>>

\* if not data: break; sock.close(); the thread ends.  (close() of the
\* local stream socket is taken not to raise.)
RecvEOF ==
    /\ pcWorker = "recv"
    /\ running
    /\ pcWorker' = "stopped"
    /\ UNCHANGED <<mainVars, event_queue, sceneVars, lines, stream, putLog,
                   applied,
                   nConnect, nDemo, nRounds>>

\* Variant: the worker applies a decoded graph_update to the node itself
\* instead of putting it on the queue.
DecodeLineDirect ==
    /\ pcWorker = "lines"
    /\ lines # <<>>
    /\ LET decoded == json_loads(Head(lines)) IN
       nodes' = IF decoded[1] /\ Get(decoded[2], "type", "") = "graph_update"
                THEN GraphUpdate(nodes, decoded[2])
                ELSE nodes
    /\ lines' = Tail(lines)
    /\ UNCHANGED <<mainVars, event_queue, entries, pos, metrics,
                   camera_theta, logged, pcWorker, stream, putLog, applied,
                   nConnect, nDemo, nRounds>>

\* for line in ...: event = json.loads(line); self.event_queue.put(event)
DecodeLine ==
    /\ pcWorker = "lines"
    /\ lines # <<>>
    /\ LET decoded == json_loads(Head(lines)) IN
       IF decoded[1]
       THEN /\ Len(putLog) < MaxFeedPuts
            /\ event_queue' = put(event_queue, decoded[2])
            /\ putLog' = Append(putLog, [event |-> decoded[2], origin |-> "feed"])
       ELSE UNCHANGED <<event_queue, putLog>>
    /\ lines' = Tail(lines)
    /\ UNCHANGED <<mainVars, sceneVars, pcWorker, stream, applied, nConnect,
                   nDemo, nRounds>>

\* The for loop over the lines of one recv is over.
LinesDone ==
    /\ pcWorker = "lines"
    /\ lines = <<>>
    /\ pcWorker' = "recv"
    /\ UNCHANGED <<mainVars, event_queue, sceneVars, lines, stream, putLog,
                   applied,
                   nConnect, nDemo, nRounds>>

\* _run_demo_mode: while self.running: time.sleep(0.4 + random.random() * 0.4)
DemoLoop ==
    /\ pcWorker = "demo"
    /\ IF running
       THEN /\ nRounds < MaxDemoRounds
            /\ nRounds' = nRounds + 1
            /\ pcWorker' = "demo_log"
       ELSE /\ pcWorker' = "stopped"
            /\ UNCHANGED nRounds
    /\ UNCHANGED <<mainVars, event_queue, sceneVars, lines, stream, putLog,
                   applied,
                   nConnect, nDemo>>

DemoPut(event, next) ==
    /\ event_queue' = put(event_queue, event)
    /\ putLog' = Append(putLog, [event |-> event, origin |-> "demo"])
    /\ pcWorker' = next
    /\ UNCHANGED <<mainVars, sceneVars, lines, stream, applied, nConnect,
                   nDemo, nRounds>>

\* put({"type": random.choice(types), "text": random.choice(messages), ...})
DemoLog ==
    /\ pcWorker = "demo_log"
    /\ \E t \in DemoTypes, m \in DemoMessages :
          DemoPut([type |-> t, text |-> m, context |-> "main",
                   timestamp |-> Now], "demo_graph")

\* put({"type": "graph_update", "node_id": ..., "activation": ...}), then
\* the draw random.random() < 0.3 decides whether a metric follows.
DemoGraph ==
    /\ pcWorker = "demo_graph"
    /\ \E id \in DemoNodeIds, a \in DemoActivations,
          next \in {"demo_metric", "demo"} :
          DemoPut(GraphUpdateRecord(id, a), next)

\* put({"type": "metric", "cpu": ..., ..., "status": ...})
DemoMetric ==
    /\ pcWorker = "demo_metric"
    /\ \E m \in DemoMetrics : DemoPut(m, "demo")

Worker ==
    \/ ConnectOk
    \/ ConnectFail
    \/ RecvLoopExit
    \/ RecvData
    \/ RecvFail
    \/ Backoff
    \/ RecvEOF
    \/ DecodeLine
    \/ LinesDone
    \/ DemoLoop
    \/ DemoLog
    \/ DemoGraph
    \/ DemoMetric

Next == Main \/ Worker

Spec == Init /\ [][Next]_vars

\* The same program on a feed that also sends the lines of FaultRecords.
NextFault == Next \/ RecvFault \/ DrainRaise

FaultSpec == Init /\ [][NextFault]_vars

(* ------------- the device buffer alone (FramebufferDisplay) ------------- *)

\* Descriptors os.open may return (0 when the process has no standard input)
\* and geometries of 2 x 2 pixels: 4 bytes a pixel without and with row
\* padding, and 2 bytes a pixel (16 bits, row stride 2 * width).
DeviceFds == {0, 3}

Geometries ==
    {FramebufferInfo(2, 2, 32, 8), FramebufferInfo(2, 2, 32, 12),
     FramebufferInfo(2, 2, 16, 4)}

\* Coordinates from one left of / above the screen to one right of / below.
Coords == -1 .. 2

Colors == {<<10, 20, 30>>, <<200, 100, 50>>}

\* What the calls on the FramebufferDisplay leave alone.
programVars == <<pcMain, running, delta_time, frame_count, drainMark,
                 event_queue, sceneVars, workerVars, putLog, applied>>

\* open() on the fresh object.
DevOpen ==
    /\ lastCall.op = "none"
    /\ \E outcome \in OpenOutcomes, fd \in DeviceFds, g \in Geometries :
          fb_open(outcome, fd, g)
    /\ UNCHANGED programVars

DevDrawPixel ==
    /\ \E x \in Coords, y \in Coords, color \in Colors :
          fb_draw_pixel(x, y, color)
    /\ UNCHANGED programVars

DevClear ==
    /\ \E color \in Colors : fb_clear(color)
    /\ UNCHANGED programVars

DevClose ==
    /\ nClose < MaxCloses
    /\ fb_close("None")
    /\ UNCHANGED programVars

NextDevice == DevOpen \/ DevDrawPixel \/ DevClear \/ DevClose

DeviceSpec == Init /\ [][NextDevice]_vars

(* ------------- the byte stream of the feed (reads and lines) ------------ *)

\* The feed as text: a sequence of characters.  A record is written with
\* three characters, an opening brace, a letter and a closing brace (the
\* letter stands for the members of the object); NL ends a line.
NL == "\n"

RecordText(letter) == <<"{", letter, "}">>

\* json.loads on the text of a line: the text is a whole record or it is not.
WellFormed(text) ==
    /\ Len(text) = 3
    /\ text[1] = "{"
    /\ text[2] \in {"a", "b"}
    /\ text[3] = "}"

\* The object a well-formed text decodes to.
ParseObj(text) ==
    [type |-> "thought", text |-> text[2], context |-> "main", timestamp |-> 7]

\* A line of text as the worker's loop sees it: json.loads decodes it or
\* raises JSONDecodeError (an empty line is skipped, which enqueues nothing
\* either).
Line(text) ==
    IF WellFormed(text) THEN [json |-> TRUE, obj |-> ParseObj(text)]
    ELSE [json |-> FALSE, obj |-> <<>>]

RECURSIVE StripLeft(_)
StripLeft(text) ==
    IF text # <<>> /\ Head(text) = NL THEN StripLeft(Tail(text)) ELSE text

RECURSIVE StripRight(_)
StripRight(text) ==
    IF text # <<>> /\ text[Len(text)] = NL
    THEN StripRight(SubSeq(text, 1, Len(text) - 1))
    ELSE text

\* str.strip() (the only whitespace of the sampled texts is NL)
Strip(text) == StripRight(StripLeft(text))

\* str.split('\n')
RECURSIVE Split(_)
Split(text) ==
    IF \A i \in 1 .. Len(text) : text[i] # NL THEN <<text>>
    ELSE LET i == CHOOSE j \in 1 .. Len(text) :
                      text[j] = NL /\ \A k \in 1 .. (j - 1) : text[k] # NL
         IN <<SubSeq(text, 1, i - 1)>> \o Split(SubSeq(text, i + 1, Len(text)))

\* data.strip().split('\n') as the lines the for loop iterates over.
SplitLines(data) ==
    LET texts == Split(Strip(data)) IN
    [i \in 1 .. Len(texts) |-> Line(texts[i])]

\* Texts of the lines a feed sends: two records and one malformed line.
LineTexts == {RecordText("a"), RecordText("b"), <<"{", "a">>}

\* The feeds: up to MaxFeedPuts lines, each ended by NL.
RECURSIVE StreamsOf(_)
StreamsOf(n) ==
    IF n = 0 THEN {<<>>}
    ELSE {t \o <<NL>> \o rest : t \in LineTexts, rest \in StreamsOf(n - 1)}

Streams == UNION {StreamsOf(n) : n \in 1 .. MaxFeedPuts}

\* The device is open, the worker is connected to a feed that will send the
\* bytes of one of Streams; the main loop is at the top of an iteration.
InitStream ==
    /\ pcMain = "tick"
    /\ running = TRUE
    /\ \E fd \in RunFds, g \in RunGeometries : Opened(fd, g)
    /\ drainMark = 0
    /\ delta_time = 0
    /\ frame_count = 0
    /\ event_queue = <<>>
    /\ entries = <<>>
    /\ nodes = [n \in NodeIds |-> GraphNode]
    /\ pos = _init_nodes
    /\ metrics = SystemMetrics
    /\ camera_theta = 0
    /\ pcWorker = "recv"
    /\ lines = <<>>
    /\ \E data \in Streams : stream = [data |-> data, pos |-> 0]
    /\ putLog = <<>>
    /\ applied = <<>>
    /\ logged = <<>>
    /\ nConnect = 1
    /\ nDemo = 0
    /\ nRounds = 0

\* data = sock.recv(4096).decode('utf-8'): a stream socket returns any
\* non-empty prefix of the bytes not read yet; the text is stripped and
\* split without regard to what the reads before it returned.
RecvBytes ==
    /\ pcWorker = "recv"
    /\ running
    /\ \E k \in 1 .. (Len(stream.data) - stream.pos) :
          /\ lines' = SplitLines(SubSeq(stream.data, stream.pos + 1,
                                        stream.pos + k))
          /\ stream' = [stream EXCEPT !.pos = stream.pos + k]
    /\ pcWorker' = "lines"
    /\ UNCHANGED <<mainVars, event_queue, sceneVars, putLog, applied,
                   nConnect, nDemo, nRounds>>

NextStream == RecvBytes \/ DecodeLine \/ LinesDone

StreamSpec == InitStream /\ [][NextStream]_vars

(* ---------------- the log stream alone (capacity of the deque) ---------- *)

\* The state once the device is open, the worker is connected and the main
\* loop is in process_events.
InitLog ==
    /\ pcMain = "drain"
    /\ running = TRUE
    /\ \E fd \in RunFds, g \in RunGeometries : Opened(fd, g)
    /\ drainMark = 0
    /\ delta_time = 300
    /\ frame_count = 0
    /\ event_queue = <<>>
    /\ entries = <<>>
    /\ nodes = [n \in NodeIds |-> GraphNode]
    /\ pos = _init_nodes
    /\ metrics = SystemMetrics
    /\ camera_theta = 0
    /\ pcWorker = "lines"
    /\ lines = <<>>
    /\ stream = [data |-> <<>>, pos |-> 0]
    /\ putLog = <<>>
    /\ applied = <<>>
    /\ logged = <<>>
    /\ nConnect = 1
    /\ nDemo = 0
    /\ nRounds = 0

\* The feed sends one more log line, its n-th, stamped n; the worker decodes
\* and puts it while the queue is empty.
LogFeed ==
    /\ pcWorker = "lines"
    /\ Len(putLog) < MaxLogged
    /\ event_queue = <<>>
    /\ LET event == [type |-> "thought", text |-> "hello",
                     context |-> "vision", timestamp |-> Len(putLog) + 1]
       IN /\ event_queue' = put(event_queue, event)
          /\ putLog' = Append(putLog, [event |-> event, origin |-> "feed"])
    /\ UNCHANGED <<mainVars, sceneVars, workerVars, applied>>

NextLog == LogFeed \/ DrainApply

LogSpec == InitLog /\ [][NextLog]_vars

(* ------------- the smoothing step alone (update_nodes as a function) ----- *)

\* Activations and brightnesses in [0,1] on a grid of 0.05.
UnitSamples == {50 * k : k \in 0 .. 20}

\* The main loop at the top of an iteration with node 0 at any sampled
\* activation and brightness; the feed has ended (the worker has stopped).
InitSmooth ==
    /\ pcMain = "tick"
    /\ running = TRUE
    /\ \E fd \in RunFds, g \in RunGeometries : Opened(fd, g)
    /\ drainMark = 0
    /\ delta_time = 0
    /\ frame_count = 0
    /\ event_queue = <<>>
    /\ entries = <<>>
    /\ \E a \in UnitSamples, b \in UnitSamples :
          nodes = [n \in NodeIds |->
                      IF n = 0
                      THEN [activation |-> a, brightness |-> b,
                            pulse_timer |-> 0]
                      ELSE GraphNode]
    /\ pos = _init_nodes
    /\ metrics = SystemMetrics
    /\ camera_theta = 0
    /\ pcWorker = "stopped"
    /\ lines = <<>>
    /\ stream = [data |-> <<>>, pos |-> 0]
    /\ putLog = <<>>
    /\ applied = <<>>
    /\ logged = <<>>
    /\ nConnect = 1
    /\ nDemo = 0
    /\ nRounds = 0

NextSmooth == Tick \/ DrainDone \/ Advance \/ Render

SmoothSpec == InitSmooth /\ [][NextSmooth]_vars

(* ------------------------------ rendering ------------------------------ *)

\* int(n / d) for d > 0: the fraction is cut off toward zero.
Trunc(n, d) == IF n >= 0 THEN n \div d ELSE -((-n) \div d)

\* math.pi, in thousandths.
Pi == 3142

\* math.sin on [0, pi], for x in thousandths of a radian, by Bhaskara's
\* formula 16 q / (5 pi^2 - 4 q) with q = x (pi - x); it is exact at 0,
\* pi / 2 and pi and within 0.002 of the sine in between.  Numerator and
\* denominator are scaled down to stay within 32 bits.
SinHalf(x) ==
    LET q == x * (Pi - x) IN
    RoundDiv(4 * Unit * RoundDiv(q, 16), RoundDiv(5 * Pi * Pi - 4 * q, 64))

\* math.sin(t)
Sin(t) ==
    LET r == t % (2 * Pi) IN
    IF r <= Pi THEN SinHalf(r) ELSE -SinHalf(r - Pi)

\* math.cos(t)
Cos(t) == Sin(t + RoundDiv(Pi, 2))

\* distance = 3.0
distance == 3000

\* x_rot = node.x * cos_t - node.z * sin_t
x_rot(p, theta) == RoundDiv(p.x * Cos(theta) - p.z * Sin(theta), Unit)

\* z_rot = node.x * sin_t + node.z * cos_t
z_rot(p, theta) == RoundDiv(p.x * Sin(theta) + p.z * Cos(theta), Unit)

\* The float division distance / (distance + z_rot) raises
\* ZeroDivisionError where the divisor is zero.
ProjectRaises(p, theta) == distance + z_rot(p, theta) = 0

\* scale = distance / (distance + z_rot), where the divisor is not zero.
Scale(p, theta) ==
    LET d == distance + z_rot(p, theta) IN
    IF d > 0 THEN RoundDiv(distance * Unit, d)
             ELSE -RoundDiv(distance * Unit, -d)

\* project_node(node, width, height), where it does not raise:
\* screen_x = int(width / 2 + x_rot * scale * width / 4)
\* screen_y = int(height / 2 - node.y * scale * height / 3)
project_node(p, theta, width, height) ==
    LET scale == Scale(p, theta)
        xs == RoundDiv(x_rot(p, theta) * scale, Unit)
        ys == RoundDiv(p.y * scale, Unit)
    IN [x |-> Trunc(2 * width * Unit + xs * width, 4 * Unit),
        y |-> Trunc(3 * height * Unit - 2 * ys * height, 6 * Unit),
        scale |-> scale]

\* A panel: the x, y, w, h passed to a render method.
Rect(x, y, w, h) == [x |-> x, y |-> y, w |-> w, h |-> h]

\* sorted(self.nodes.values(), key=lambda n: n.z): ascending z, nodes of
\* equal z in the order of the dict, which is the order of the ids.  The
\* k-th node of the result is the one that k - 1 nodes come before.
sorted_by_z(ids, p) ==
    LET Before(i, j) == p[i].z < p[j].z \/ (p[i].z = p[j].z /\ i < j)
        rank == [i \in ids |-> Cardinality({j \in ids : Before(j, i)})]
                @@ <<>>
    IN [k \in 1 .. Cardinality(ids) |-> CHOOSE i \in ids : rank[i] = k - 1]
       \o <<>>

\* The test of render_graph that skips a node: behind the camera or
\* outside the panel.
Skipped(at, r) ==
    \/ at.scale < 0
    \/ at.x < r.x \/ at.y < r.y
    \/ at.x >= r.x + r.w \/ at.y >= r.y + r.h

\* The draw_circle call of render_graph for node n projected to at:
\* radius = max(2, int(3 * scale * (0.5 + node.brightness * 0.5)))
\* brightness = int(node.brightness * 255)
\* color = (0, brightness, int(brightness * 0.5))
Circle(n, at, node) ==
    LET radius == Trunc(3 * at.scale * (Unit + node.brightness),
                        2 * Unit * Unit)
        brightness == Trunc(node.brightness * 255, Unit)
    IN [node |-> n, cx |-> at.x, cy |-> at.y, scale |-> at.scale,
        radius |-> IF radius >= 2 THEN radius ELSE 2,
        color |-> <<0, brightness, Trunc(brightness, 2)>>]

\* The loop of render_graph over the nodes in order: it ends at the first
\* node whose projection raises; a node is projected (nx += x; ny += y),
\* tested and drawn.  The result is the draw_circle calls made and the
\* exception that ended the loop.
graph_loop(order, r) ==
    LET raising == {k \in DOMAIN order :
                       ProjectRaises(pos[order[k]], camera_theta)}
        stop == IF raising = {} THEN Len(order) + 1
                ELSE CHOOSE k \in raising : \A j \in raising : k <= j
        at(k) == LET p == project_node(pos[order[k]], camera_theta, r.w, r.h)
                 IN [p EXCEPT !.x = p.x + r.x, !.y = p.y + r.y]
        each == [k \in 1 .. (stop - 1) |->
                    Circle(order[k], at(k), nodes[order[k]])] \o <<>>
        Shown(c) == ~Skipped([x |-> c.cx, y |-> c.cy, scale |-> c.scale], r)
    IN [calls |-> SelectSeq(each, Shown),
        raised |-> IF raising = {} THEN "None" ELSE "ZeroDivisionError"]

\* render_graph(x, y, w, h)
render_graph(r) == graph_loop(sorted_by_z(DOMAIN nodes, pos), r)

\* entry.message[:40] and list(self.entries)[-15:]
Slice(s, n) == SubSeq(s, 1, IF Len(s) <= n THEN Len(s) ELSE n)

Last(s, n) == SubSeq(s, IF Len(s) <= n THEN 1 ELSE Len(s) - n + 1, Len(s))

\* The draw_text call of render_terminal for one entry.
Text(x, y, entry) ==
    [x |-> x, y |-> y, timestamp |-> entry.timestamp,
     message |-> Slice(entry.message, 40)]

\* The loop of render_terminal: one line per entry, 20 pixels apart, until
\* line_y reaches y + h - 20.
RECURSIVE terminal_loop(_, _, _)
terminal_loop(es, r, line_y) ==
    IF es = <<>> \/ line_y >= r.y + r.h - 20 THEN <<>>
    ELSE <<Text(r.x + 10, line_y, Head(es))>>
         \o terminal_loop(Tail(es), r, line_y + 20)

\* render_terminal(x, y, w, h)
render_terminal(r) == terminal_loop(Last(entries, 15), r, r.y + 40)

\* The panels render_frame passes for a screen of the given size.
TerminalPanel(width, height) == Rect(10, 60, width \div 2 - 20, height - 70)

GraphPanel(width, height) ==
    Rect(width \div 2 + 10, 60, width - width \div 2 - 20,
         height \div 2 - 70)

\* Screen sizes the panels are taken from.
Screens == {<<320, 160>>, <<320, 240>>, <<640, 480>>, <<1920, 1080>>}

\* Contents of the log: n entries, every other message longer than 40.
LogLengths == {0, 2, 3, 16}

SampleEntry(k) ==
    [timestamp |-> k, context_id |-> "main", event_type |-> "thought",
     message |-> IF k % 2 = 0 THEN "short"
                 ELSE "a message of more than forty characters in all"]

SampleLog(n) == [k \in 1 .. n |-> SampleEntry(k)]

\* Camera angles: 0, a quarter turn, a half turn.
CameraAngles == {0, RoundDiv(Pi, 2), Pi}

\* Positions of node 0: where _init_nodes puts it, and positions no
\* method of the class gives a node but project_node accepts.
Node0Positions ==
    {_init_nodes[0], Position(0, 0, 0 - distance), Position(0, 0, distance),
     Position(0, 0, 0 - distance - Unit), Position(distance + Unit, 0, 0)}

\* render_frame is about to run on an open device: the log, the camera
\* angle, the brightness of two nodes and the position of node 0 vary.
InitRender ==
    /\ pcMain = "render"
    /\ running = TRUE
    /\ \E fd \in RunFds, g \in RunGeometries : Opened(fd, g)
    /\ drainMark = 0
    /\ delta_time = 0
    /\ frame_count = 0
    /\ event_queue = <<>>
    /\ \E n \in LogLengths : entries = SampleLog(n) /\ logged = SampleLog(n)
    /\ \E b \in {0, Unit} :
          nodes = [n \in NodeIds |->
                      IF n = 0 THEN [GraphNode EXCEPT !.brightness = b]
                      ELSE GraphNode]
    /\ \E p \in Node0Positions : pos = [_init_nodes EXCEPT ![0] = p]
    /\ metrics = SystemMetrics
    /\ \E t \in CameraAngles : camera_theta = t
    /\ pcWorker = "stopped"
    /\ lines = <<>>
    /\ stream = [data |-> <<>>, pos |-> 0]
    /\ putLog = <<>>
    /\ applied = <<>>
    /\ nConnect = 0
    /\ nDemo = 0
    /\ nRounds = 0

renderedVars == <<pcMain, running, fb_mem, fb_fd, info, fb_bytes, os_fds,
                  nClose, lastCall, drainMark, delta_time, frame_count,
                  event_queue, sceneVars, workerVars, putLog, applied>>

\* self.render_graph(x, y, w, h).  On the screens of RunGeometries every
\* pixel of the panel is outside the screen, so the buffer is left alone.
RenderGraph ==
    /\ pcMain = "render"
    /\ \E s \in Screens :
          LET r == GraphPanel(s[1], s[2])
              out == render_graph(r)
          IN /\ drawn' = Drawing("render_graph", r, out.calls)
             /\ raised' = out.raised
    /\ UNCHANGED renderedVars

\* self.render_terminal(x, y, w, h)
RenderTerminal ==
    /\ pcMain = "render"
    /\ \E s \in Screens :
          LET r == TerminalPanel(s[1], s[2]) IN
          /\ drawn' = Drawing("render_terminal", r, render_terminal(r))
          /\ raised' = "None"
    /\ UNCHANGED renderedVars

NextRender == RenderGraph \/ RenderTerminal

RenderSpec == InitRender /\ [][NextRender]_vars

(* ---------------- records of the feed that lack a field ----------------- *)

\* Lines that json.loads decodes to an object that lacks "type", carries a
\* type process_events does not know, or is a graph_update without
\* "node_id", without "activation" or without both.
PartialRecords ==
    { [text |-> "hello"],
      [type |-> "status", text |-> "hello"],
      [type |-> "graph_update", activation |-> 950],
      [type |-> "graph_update", node_id |-> 1],
      [type |-> "graph_update"] }

\* The device is open, the worker is connected, the main loop is in
\* process_events; earlier graph_updates have set the activation of nodes
\* 0 and 1 to 0.9 and 0.5.
InitShape ==
    /\ pcMain = "drain"
    /\ running = TRUE
    /\ \E fd \in RunFds, g \in RunGeometries : Opened(fd, g)
    /\ drainMark = 0
    /\ delta_time = 0
    /\ frame_count = 0
    /\ event_queue = <<>>
    /\ entries = <<>>
    /\ nodes = [n \in NodeIds |->
                   IF n = 0 THEN SetActivation(GraphNode, 900)
                   ELSE IF n = 1 THEN SetActivation(GraphNode, 500)
                   ELSE GraphNode]
    /\ pos = _init_nodes
    /\ metrics = SystemMetrics
    /\ camera_theta = 0
    /\ pcWorker = "recv"
    /\ lines = <<>>
    /\ stream = [data |-> <<>>, pos |-> 0]
    /\ putLog = <<>>
    /\ applied = <<>>
    /\ logged = <<>>
    /\ nConnect = 1
    /\ nDemo = 0
    /\ nRounds = 0

\* data = sock.recv(4096).decode('utf-8') returns a line that decodes to a
\* value of PartialRecords.
RecvPartial ==
    /\ pcWorker = "recv"
    /\ running
    /\ Len(putLog) < MaxFeedPuts
    /\ \E r \in PartialRecords : lines' = <<[json |-> TRUE, obj |-> r]>>
    /\ pcWorker' = "lines"
    /\ UNCHANGED <<mainVars, event_queue, sceneVars, stream, putLog, applied,
                   nConnect, nDemo, nRounds>>

NextShape == RecvPartial \/ DecodeLine \/ LinesDone \/ DrainApply

ShapeSpec == InitShape /\ [][NextShape]_vars

(* ------------------------------ draw_line ------------------------------ *)

\* Iterations of the loop of draw_line that are followed; a call that has
\* not returned after them is recorded as still running.
MaxLineSteps == 12

\* The test of draw_pixel on a live mapping: the pixel is on the screen.
OnScreen(x, y, g) == ~(x < 0 \/ y < 0 \/ x >= g.width \/ y >= g.height)

\* The draw_pixel calls for the pixels of a sequence, in order, as a
\* function of the buffer: the bytes they leave, the exception that ended
\* them ("None" if none) and the number of calls made.
RECURSIVE draw_pixels(_, _, _, _, _)
draw_pixels(bytes, pixels, color, g, made) ==
    IF pixels = <<>>
    THEN [bytes |-> bytes, raised |-> "None", made |-> made]
    ELSE LET x == Head(pixels)[1]
             y == Head(pixels)[2]
         IN IF ~OnScreen(x, y, g)
            THEN draw_pixels(bytes, Tail(pixels), color, g, made + 1)
            ELSE IF PixelOffset(x, y, g) + 4 > Size(g)
            THEN [bytes |-> bytes, raised |-> "ValueError", made |-> made + 1]
            ELSE draw_pixels(Write(bytes, PixelOffset(x, y, g), Pixel(color)),
                             Tail(pixels), color, g, made + 1)

\* Variant: a step in x leaves the step in y to the next iteration.
RECURSIVE line_loop_one_axis(_, _, _, _, _, _)
line_loop_one_axis(x, y, err, to, visited, steps) ==
    LET seen == Append(visited, <<x, y>>)
        dx == IF to.x2 >= to.x1 THEN to.x2 - to.x1 ELSE to.x1 - to.x2
        dy == IF to.y2 >= to.y1 THEN to.y2 - to.y1 ELSE to.y1 - to.y2
        sx == IF to.x1 < to.x2 THEN 1 ELSE -1
        sy == IF to.y1 < to.y2 THEN 1 ELSE -1
        e2 == 2 * err
    IN IF x = to.x2 /\ y = to.y2 THEN [calls |-> seen, returned |-> TRUE]
       ELSE IF steps = 0 THEN [calls |-> seen, returned |-> FALSE]
       ELSE IF e2 > -dy
       THEN line_loop_one_axis(x + sx, y, err - dy, to, seen, steps - 1)
       ELSE line_loop_one_axis(x, y + sy, err + dx, to, seen, steps - 1)

\* The while loop of draw_line from (x, y) with error term err: the pixels
\* passed to draw_pixel, in order, and whether the loop has ended.
\*   e2 = 2 * err
\*   if e2 > -dy: err -= dy; x += sx
\*   if e2 < dx:  err += dx; y += sy
RECURSIVE line_loop(_, _, _, _, _, _)
line_loop(x, y, err, to, visited, steps) ==
    LET seen == Append(visited, <<x, y>>)
        dx == IF to.x2 >= to.x1 THEN to.x2 - to.x1 ELSE to.x1 - to.x2
        dy == IF to.y2 >= to.y1 THEN to.y2 - to.y1 ELSE to.y1 - to.y2
        sx == IF to.x1 < to.x2 THEN 1 ELSE -1
        sy == IF to.y1 < to.y2 THEN 1 ELSE -1
        e2 == 2 * err
        err1 == IF e2 > -dy THEN err - dy ELSE err
        x1 == IF e2 > -dy THEN x + sx ELSE x
        err2 == IF e2 < dx THEN err1 + dx ELSE err1
        y1 == IF e2 < dx THEN y + sy ELSE y
    IN IF x = to.x2 /\ y = to.y2 THEN [calls |-> seen, returned |-> TRUE]
       ELSE IF steps = 0 THEN [calls |-> seen, returned |-> FALSE]
       ELSE line_loop(x1, y1, err2, to, seen, steps - 1)

\* FramebufferDisplay.draw_line(x1, y1, x2, y2, color) on a live mapping:
\* dx = abs(x2 - x1); dy = abs(y2 - y1); err = dx - dy; x, y = x1, y1
fb_draw_line(x1, y1, x2, y2, color) ==
    LET to == [x1 |-> x1, y1 |-> y1, x2 |-> x2, y2 |-> y2]
        dx == IF x2 >= x1 THEN x2 - x1 ELSE x1 - x2
        dy == IF y2 >= y1 THEN y2 - y1 ELSE y1 - y2
        walk == line_loop(x1, y1, dx - dy, to, <<>>, MaxLineSteps)
        out == draw_pixels(fb_bytes, walk.calls, color, The(info), 0)
    IN /\ lastCall' = Call("draw_line", x1, y1, color)
       /\ drawn' = Drawing(IF walk.returned \/ out.raised # "None"
                           THEN "draw_line" ELSE "draw_line running",
                           <<x1, y1, x2, y2>>,
                           SubSeq(walk.calls, 1, out.made))
       /\ fb_bytes' = out.bytes
       /\ raised' = out.raised
       /\ UNCHANGED <<fb_mem, fb_fd, info, os_fds, nClose>>

\* Geometries of 4-byte pixels, packed and padded, and the endpoints of the
\* lines drawn on them: inside and outside the screen.
LineGeometries == {FramebufferInfo(3, 3, 32, 12), FramebufferInfo(3, 3, 32, 16)}

LineCoords == -2 .. 4

\* The state after a successful open().
InitLine ==
    /\ pcMain = "start"
    /\ running = FALSE
    /\ \E fd \in RunFds, g \in LineGeometries : Opened(fd, g)
    /\ drainMark = 0
    /\ delta_time = 0
    /\ frame_count = 0
    /\ event_queue = <<>>
    /\ entries = <<>>
    /\ nodes = [n \in NodeIds |-> GraphNode]
    /\ pos = _init_nodes
    /\ metrics = SystemMetrics
    /\ camera_theta = 0
    /\ pcWorker = "unstarted"
    /\ lines = <<>>
    /\ stream = [data |-> <<>>, pos |-> 0]
    /\ putLog = <<>>
    /\ applied = <<>>
    /\ logged = <<>>
    /\ nConnect = 0
    /\ nDemo = 0
    /\ nRounds = 0

\* draw_line, the first drawing call on the opened device.
DevDrawLine ==
    /\ fb_mem = "mapped"
    /\ drawn = NoDrawing
    /\ \E x1 \in LineCoords, y1 \in LineCoords, x2 \in LineCoords,
          y2 \in LineCoords : fb_draw_line(x1, y1, x2, y2, <<200, 100, 50>>)
    /\ UNCHANGED programVars

NextLine == DevDrawLine

LineSpec == InitLine /\ [][NextLine]_vars

(* ----------- process_events against a feed that does not pause --------- *)

\* Events the queue holds at most in this specification.
MaxQueue == 2

\* The events of the feed: two graph_updates for node 0.
BusyRecords == {GraphUpdateRecord(0, 950), GraphUpdateRecord(0, 500)}

\* The device is open, the worker is connected and the main loop is at the
\* top of an iteration.  The history variables are not kept in this
\* specification (they stay empty), so that a run of any length stays
\* within finitely many states.
InitBusy ==
    /\ pcMain = "tick"
    /\ running = TRUE
    /\ \E fd \in RunFds, g \in RunGeometries : Opened(fd, g)
    /\ drainMark = 0
    /\ delta_time = 0
    /\ frame_count = 0
    /\ event_queue = <<>>
    /\ entries = <<>>
    /\ nodes = [n \in NodeIds |-> GraphNode]
    /\ pos = _init_nodes
    /\ metrics = SystemMetrics
    /\ camera_theta = 0
    /\ pcWorker = "recv"
    /\ lines = <<>>
    /\ stream = [data |-> <<>>, pos |-> 0]
    /\ putLog = <<>>
    /\ applied = <<>>
    /\ logged = <<>>
    /\ nConnect = 1
    /\ nDemo = 0
    /\ nRounds = 0

\* One iteration of the worker's loop: sock.recv returns one line,
\* json.loads decodes it and self.event_queue.put(event) enqueues it.
FeedPut ==
    /\ pcWorker = "recv"
    /\ running
    /\ Len(event_queue) < MaxQueue
    /\ \E r \in BusyRecords : event_queue' = put(event_queue, r)
    /\ UNCHANGED <<mainVars, sceneVars, workerVars, putLog, applied>>

\* process_events: one iteration of the while loop on a non-empty queue
\* that holds graph_update events.
DrainTake ==
    /\ pcMain = "drain"
    /\ event_queue # <<>>
    /\ LET got == get_nowait(event_queue) IN
       /\ event_queue' = got[2]
       /\ nodes' = GraphUpdate(nodes, got[1])
    /\ UNCHANGED <<mainVars, entries, pos, metrics, camera_theta, logged,
                   workerVars, putLog, applied>>

\* A step of the main thread.
MainStep == Tick \/ DrainTake \/ DrainDone \/ Advance \/ Render

NextBusy == MainStep \/ FeedPut

\* Both threads are scheduled again and again: each takes a step if it can
\* take one from some point on.
BusySpec ==
    InitBusy /\ [][NextBusy]_vars /\ WF_vars(MainStep) /\ WF_vars(FeedPut)

(* ------------------------------- claims -------------------------------- *)

Max(a, b) == IF a >= b THEN a ELSE b

Abs(a) == IF a >= 0 THEN a ELSE -a

IsPrefix(s, t) ==
    /\ Len(s) <= Len(t)
    /\ \A i \in 1 .. Len(s) : s[i] = t[i]

\* The last k elements of s.
LastN(s, k) ==
    IF Len(s) <= k THEN s ELSE SubSeq(s, Len(s) - k + 1, Len(s))

\* The step is one iteration of process_events that takes an event off.
IsApplyStep == pcMain = "drain" /\ Len(applied') = Len(applied) + 1

\* The step is one call of update_nodes.
IsAdvanceStep == pcMain = "advance" /\ pcMain' = "render"

DemoPcs == {"demo", "demo_log", "demo_graph", "demo_metric"}

FeedPcs == {"recv", "lines", "sleep"}

\* C1: for every node, every previous pulse_timer p >= 0 and every elapsed
\* time dt >= 0, the pulse_timer after one update_nodes(dt) is max(0, p - dt).
\* The code subtracts dt whenever p > 0 and does not clamp: p = 0.2 and
\* dt = 0.3 leave -0.1.
C1_PulseTimerClamped ==
    [][(IsAdvanceStep /\ delta_time >= 0) =>
         \A n \in NodeIds :
            nodes[n].pulse_timer >= 0 =>
               nodes'[n].pulse_timer = Max(0, nodes[n].pulse_timer - delta_time)]_vars

\* C2: applying a graph_update for a known node id sets the node's
\* activation; with activation > 0.8 its pulse_timer becomes exactly 0.2
\* whatever it was (also when it was larger), with activation <= 0.8 its
\* pulse_timer is unchanged.
C2_PulseReset ==
    [][IsApplyStep =>
         LET event == Head(event_queue)
             id == Get(event, "node_id", 0)
             a == Get(event, "activation", 0)
         IN (Get(event, "type", "") = "graph_update" /\ id \in 0 .. 49) =>
               /\ nodes'[id].activation = a
               /\ a > 800 => nodes'[id].pulse_timer = 200
               /\ a <= 800 => nodes'[id].pulse_timer = nodes[id].pulse_timer]_vars

\* C2 witness: node 0 got activation 0.95 twice; the first event was applied
\* before a frame whose delta_time was -0.3 (brightness has moved, the camera
\* has turned back), which left pulse_timer at 0.5, and the second event has
\* set it to 0.2 again.
C2_Witness ==
    /\ Len(applied) = 2
    /\ applied[1] = GraphUpdateRecord(0, 950)
    /\ applied[2] = GraphUpdateRecord(0, 950)
    /\ frame_count = 1
    /\ camera_theta = -90
    /\ nodes[0].brightness = 143
    /\ nodes[0].pulse_timer = 200

\* C3: in every reachable state every node's brightness lies in [0,1].
\* The real feed may send any number as activation; the code stores it
\* unchecked and brightness follows it out of [0,1].
C3_BrightnessInUnit ==
    \A n \in NodeIds : nodes[n].brightness >= 0 /\ nodes[n].brightness <= 1000

\* C4: for activation a and brightness b in [0,1], one update_nodes step
\* gives b' = b + (a - b) * 0.15 (to the rounding of the grid), b' lies
\* between b and a, |a - b'| <= |a - b|, b' is in [0,1], and b' is the same
\* for every delta_time.
C4_SmoothNoOvershoot ==
    [][IsAdvanceStep =>
         \A n \in NodeIds :
            LET a == nodes[n].activation
                b == nodes[n].brightness
                b1 == nodes'[n].brightness
            IN (a >= 0 /\ a <= 1000 /\ b >= 0 /\ b <= 1000) =>
                  /\ Abs(1000 * (b1 - b) - 150 * (a - b)) <= 500
                  /\ (IF a >= b THEN b <= b1 /\ b1 <= a
                                ELSE a <= b1 /\ b1 <= b)
                  /\ Abs(a - b1) <= Abs(a - b)
                  /\ b1 >= 0 /\ b1 <= 1000
                  /\ \A dt \in DeltaTimes \cup {0, 33, 5000} :
                        update_nodes(nodes, dt)[n].brightness = b1]_vars

\* C4 witness: node 0 started at brightness 0 with activation 1.0 and two
\* frames have moved it to 0.150 and then 0.278.
C4_Witness ==
    /\ pcMain = "render"
    /\ frame_count = 1
    /\ nodes[0].activation = 1000
    /\ nodes[0].brightness = 278

\* C5: the log never holds more than 500 entries, and after n log events it
\* holds exactly the last min(n, 500) of them in insertion order.
C5_LogKeepsLast500 ==
    /\ Len(entries) <= 500
    /\ Len(entries) = (IF Len(logged) <= 500 THEN Len(logged) ELSE 500)
    /\ entries = LastN(logged, 500)

\* C5 witness: 600 distinct entries were inserted, 500 are held and the
\* first of them is the 101st inserted.
C5_Witness ==
    /\ Len(logged) = 600
    /\ \A i \in 1 .. 600 : logged[i].timestamp = i
    /\ Len(entries) = 500
    /\ entries[1] = logged[101]
    /\ entries[500] = logged[600]

\* C6: the set of node ids is 0..49 in every state, and applying a
\* graph_update whose node_id is not in it changes no node, nor the log, nor
\* the metrics.
C6_UnknownNodeNoOp ==
    /\ [](DOMAIN nodes = 0 .. 49)
    /\ [][IsApplyStep =>
            LET event == Head(event_queue) IN
            (Get(event, "type", "") = "graph_update"
               /\ Get(event, "node_id", 0) \notin 0 .. 49) =>
                  /\ nodes' = nodes
                  /\ entries' = entries
                  /\ metrics' = metrics]_vars

\* C6 witness: a graph_update for node id 50 was applied after node 0 had
\* been set, and the nodes are as the first event left them.
C6_Witness ==
    /\ Len(applied) = 2
    /\ applied[1] = GraphUpdateRecord(0, 950)
    /\ applied[2] = GraphUpdateRecord(50, 950)
    /\ nodes[0].activation = 950
    /\ \A n \in 1 .. 49 : nodes[n] = GraphNode

\* C7: applying a metric event replaces the whole snapshot: every field
\* takes the value the event carries for its wire field (cpu, gpu, ram,
\* tick_rate, active_nodes, total_edges, mean_error, status) or the default.
\* The code never reads gpu and ram: gpu_usage and ram_usage are always 0.
C7_MetricReplacesAll ==
    [][IsApplyStep =>
         LET event == Head(event_queue) IN
         Get(event, "type", "") = "metric" =>
            metrics' = [cpu_usage    |-> Get(event, "cpu", 0),
                        gpu_usage    |-> Get(event, "gpu", 0),
                        ram_usage    |-> Get(event, "ram", 0),
                        tick_rate    |-> Get(event, "tick_rate", 0),
                        active_nodes |-> Get(event, "active_nodes", 0),
                        total_edges  |-> Get(event, "total_edges", 0),
                        mean_error   |-> Get(event, "mean_error", 0),
                        status       |-> Get(event, "status", "IDLE")]]_vars

\* C8: events are applied in the order the worker enqueued them: what has
\* been applied so far is a prefix of what has been put, in every state.
C8_AppliedInPutOrder ==
    IsPrefix(applied, [i \in 1 .. Len(putLog) |-> putLog[i].event])

\* C8 witness: two different events were put and both have been applied in
\* that order, the first of them before the first frame's update_nodes.
C8_Witness ==
    /\ Len(applied) = 2
    /\ applied[1] # applied[2]
    /\ applied[1] = putLog[1].event
    /\ applied[2] = putLog[2].event
    /\ frame_count = 1
    /\ nodes[0].brightness > 0

\* C9: if the initial connect fails the worker enters the synthetic
\* generator once and stays there until the process ends: one connection
\* attempt at most in the whole run, and nothing from the real feed is put
\* once the generator runs.
C9_FallbackOnceForGood ==
    /\ nConnect <= 1
    /\ nDemo <= 1
    /\ pcWorker \in DemoPcs => nDemo = 1
    /\ nDemo = 1 =>
          /\ nConnect = 1
          /\ pcWorker \in DemoPcs \/ (pcWorker = "stopped" /\ ~running)
          /\ lines = <<>>
          /\ \A i \in 1 .. Len(putLog) : putLog[i].origin = "demo"

\* C9 witness: the connect failed and the generator has put a whole round
\* (log, graph_update, metric) and is back at the top of its loop.
C9_Witness ==
    /\ nDemo = 1
    /\ nConnect = 1
    /\ pcWorker = "demo"
    /\ Len(putLog) = 3
    /\ running

\* C10: once connected, a failing read sends the worker to its backoff sleep
\* and from there back to reading; no step from the connected state opens a
\* connection or enters the synthetic generator.
C10_ReadFailureKeepsConnection ==
    [][/\ pcWorker \in FeedPcs =>
            /\ nConnect' = nConnect
            /\ nDemo' = nDemo
            /\ pcWorker' \in FeedPcs \cup {"stopped"}
       /\ pcWorker = "sleep" => pcWorker' \in {"sleep", "recv"}]_vars

\* C10 witness: connected, one event read and put, and the next read has
\* failed: the worker is in its backoff sleep on the same connection.
C10_Witness ==
    /\ pcWorker = "sleep"
    /\ nConnect = 1
    /\ nDemo = 0
    /\ Len(putLog) = 1
    /\ running

\* C11: nothing the feed sends and no read error stops the render loop: the
\* main loop is left only on an interrupt or when the stop flag is set, never
\* by an exception of one of its steps.
C11_LoopEndsOnlyOnInterruptOrStop ==
    [][(pcMain \in {"tick", "drain", "advance", "render"} /\ pcMain' = "done")
          => raised' = "None"]_vars

\* The events put on the queue so far, in order.
PutEvents == [i \in 1 .. Len(putLog) |-> putLog[i].event]

\* The objects of the well-formed lines of a feed, in stream order.
RecordsOf(data) ==
    LET texts == SelectSeq(Split(Strip(data)), WellFormed) IN
    [i \in 1 .. Len(texts) |-> ParseObj(texts[i])]

\* C12: however the byte stream is divided into reads, once all of it has
\* been read and decoded the queue has received exactly the well-formed
\* lines of the stream, once each and in stream order.
C12_EachLineEnqueuedOnce ==
    (stream.pos = Len(stream.data) /\ pcWorker = "recv")
        => PutEvents = RecordsOf(stream.data)

\* A step of the started worker thread.
IsWorkerStep ==
    /\ pcWorker # "unstarted"
    /\ <<workerVars, putLog>>' # <<workerVars, putLog>>

\* The state only the main loop may write: log, nodes, metrics, camera
\* angle and the device buffer.
displayVars == <<entries, nodes, metrics, camera_theta, fb_mem, fb_bytes>>

\* C13: a step of the worker (on the real feed or in the demo) leaves the
\* log, the nodes, the metrics, the camera angle and the device buffer as
\* they are and at most appends one event to the queue; every step that
\* changes one of them is a step of the main loop.
C13_WorkerOnlyAppends ==
    [][/\ IsWorkerStep =>
            /\ displayVars' = displayVars
            /\ \/ event_queue' = event_queue
               \/ /\ Len(event_queue') = Len(event_queue) + 1
                  /\ SubSeq(event_queue', 1, Len(event_queue)) = event_queue
       /\ displayVars' # displayVars =>
            /\ ~IsWorkerStep
            /\ pcMain' # pcMain \/ Len(applied') = Len(applied) + 1]_vars

\* The worker has put two events of the feed and is still reading; the main
\* loop has applied the first to node 0.
C13_Witness ==
    /\ pcWorker \in FeedPcs
    /\ Len(putLog) = 2
    /\ Len(applied) = 1
    /\ nodes[0].activation = 950

\* C14: once open() has succeeded, run() is not left, by return or by an
\* exception, before close() has been called.
C14_CloseOnEveryExit ==
    (pcMain = "done" /\ fb_mem # "None") => nClose >= 1

\* C15: close() never raises, on a fresh object, after open or after an
\* earlier close, and after it neither the mapping nor a descriptor of the
\* device is left open, whatever the descriptor's number.
C15_CloseIdempotent ==
    lastCall.op = "close" =>
        /\ raised = "None"
        /\ fb_mem # "mapped"
        /\ os_fds = {}

\* The four offsets of pixel (x, y) hold (b, g, r, 255) of color.
PixelIs(bytes, x, y, g, color) ==
    \A k \in 0 .. 3 :
        bytes[y * g.line_length + x * 4 + k] = Pixel(color)[k + 1]

InBounds(x, y, g) == 0 <= x /\ x < g.width /\ 0 <= y /\ y < g.height

\* C17: on a mapped buffer of 4-byte pixels (row stride at least 4 * width)
\* draw_pixel raises nothing; outside the screen it changes no byte, inside
\* it sets the 4 bytes at y * stride + x * 4 to (b, g, r, 255) and changes
\* no other byte.
C17_SetPixelExact ==
    [][(/\ lastCall'.op = "draw_pixel"
        /\ fb_mem = "mapped"
        /\ The(info).line_length >= 4 * The(info).width) =>
          LET x == lastCall'.x
              y == lastCall'.y
              g == The(info)
              offset == y * g.line_length + x * 4
          IN /\ raised' = "None"
             /\ DOMAIN fb_bytes' = DOMAIN fb_bytes
             /\ IF InBounds(x, y, g)
                THEN /\ PixelIs(fb_bytes', x, y, g, lastCall'.color)
                     /\ \A i \in DOMAIN fb_bytes :
                           (i < offset \/ i > offset + 3)
                               => fb_bytes'[i] = fb_bytes[i]
                ELSE fb_bytes' = fb_bytes]_vars

\* On the padded geometry the last call drew pixel (1, 1) over a buffer in
\* which pixel (0, 0) had been drawn in the other colour.
C17_Witness ==
    /\ fb_mem = "mapped"
    /\ The(info).line_length = 12
    /\ lastCall = Call("draw_pixel", 1, 1, <<10, 20, 30>>)
    /\ PixelIs(fb_bytes, 1, 1, The(info), <<10, 20, 30>>)
    /\ PixelIs(fb_bytes, 0, 0, The(info), <<200, 100, 50>>)

\* C18: after clear(color) on a mapped buffer whose row stride is at least
\* 4 * width, every pixel of the screen holds (b, g, r, 255) at
\* y * stride + x * 4.
C18_ClearSetsEveryPixel ==
    (/\ lastCall.op = "clear"
     /\ fb_mem = "mapped"
     /\ The(info).line_length >= 4 * The(info).width) =>
        \A x \in 0 .. (The(info).width - 1), y \in 0 .. (The(info).height - 1) :
            PixelIs(fb_bytes, x, y, The(info), lastCall.color)

\* C16: when open() fails the process ends with a non-zero exit status, with
\* no frame rendered and no worker started; when the loop is ended by a
\* clean interrupt the process ends with exit status 0.
C16_ExitStatus ==
    /\ (pcMain = "done" /\ fb_mem = "None") =>
          /\ ExitStatus # 0
          /\ frame_count = 0
          /\ pcWorker = "unstarted"
    /\ (pcMain = "done" /\ fb_mem = "closed" /\ raised = "None") =>
          ExitStatus = 0

\* The positions of run() that may follow each position.
Follows ==
    [start |-> {"opened", "done"}, opened |-> {"tick", "done"},
     tick |-> {"drain", "done"}, drain |-> {"advance", "done"},
     advance |-> {"render", "done"}, render |-> {"tick", "done"},
     done |-> {}]

LoopPcs == {"tick", "drain", "advance", "render"}

\* C19: an iteration of the main loop runs process_events, then
\* update_nodes with the iteration's delta_time, then render_frame, once
\* each and in this order; the loop runs and the worker exists only after a
\* successful open, and nothing of the loop runs once the device is closed.
C19_TickOrder ==
    /\ [](pcMain \in LoopPcs => fb_mem = "mapped")
    /\ [](pcWorker # "unstarted" => fb_mem # "None")
    /\ [](fb_mem = "closed" => pcMain = "done")
    /\ [][/\ pcMain' # pcMain => pcMain' \in Follows[pcMain]
          /\ applied' # applied => pcMain = "drain"
          /\ (pcMain = "advance" /\ pcMain' = "render") =>
                /\ nodes' = update_nodes(nodes, delta_time)
                /\ delta_time' = delta_time
          /\ frame_count' # frame_count =>
                /\ pcMain = "render" /\ pcMain' = "tick"
                /\ frame_count' = frame_count + 1
          /\ (pcMain = "render" /\ pcMain' = "tick") =>
                frame_count' = frame_count + 1]_vars

\* Two whole iterations have run and applied events; the loop is at the top
\* of the third.
C19_Witness ==
    /\ pcMain = "tick"
    /\ frame_count = 2
    /\ Len(applied) = 2
    /\ fb_mem = "mapped"

\* C20 as stated: what process_events applies in an iteration are events
\* that were on the queue when it began; an event put later, even while
\* process_events is running, waits for the next iteration.
C20_OnlyEventsQueuedAtDrainStart ==
    pcMain = "drain" => Len(applied) <= drainMark

\* C20, amended: events are taken off the queue and applied only inside
\* process_events, which ends only when it finds the queue empty; an event
\* put during update_nodes or render_frame changes neither log, metrics nor
\* any activation before the next iteration's process_events.  (An event put
\* while process_events is running is applied in the same iteration.)
C20_AppliedOnlyByDrain ==
    [][/\ <<applied, entries, metrics>>' # <<applied, entries, metrics>>
             => pcMain = "drain"
       /\ pcMain \in {"advance", "render"} =>
             /\ applied' = applied
             /\ \A n \in NodeIds : nodes'[n].activation = nodes[n].activation
       /\ (pcMain = "drain" /\ pcMain' = "advance") => event_queue = <<>>]_vars

\* The first iteration's process_events applied one event and ended; a
\* second event, put after that, is on the queue while the frame is
\* rendered.
C20_Witness ==
    /\ pcMain = "render"
    /\ frame_count = 0
    /\ Len(applied) = 1
    /\ Len(event_queue) = 1

\* C21: within one frame the nodes are drawn back to front: of two drawn
\* nodes of different depth, the one farther from the camera (of smaller
\* perspective scale) is drawn first.  Stated for the positions that
\* _init_nodes gives the nodes.
C21_BackToFront ==
    (drawn.op = "render_graph" /\ pos = _init_nodes) =>
        \A i, j \in DOMAIN drawn.calls :
            (i < j /\ drawn.calls[i].scale # drawn.calls[j].scale)
                => drawn.calls[i].scale < drawn.calls[j].scale

\* C22: the entries render_terminal draws are a contiguous suffix of the
\* log ending with the newest entry, at most 15 of them, each message cut
\* to its first 40 characters.
C22_NewestEntriesShown ==
    drawn.op = "render_terminal" =>
        LET n == Len(drawn.calls)
            first == Len(entries) - n
        IN /\ n <= 15
           /\ n <= Len(entries)
           /\ \A k \in 1 .. n :
                 LET text == drawn.calls[k].message
                     entry == entries[first + k]
                 IN /\ drawn.calls[k].timestamp = entry.timestamp
                    /\ Len(text) <= 40
                    /\ Len(text) <= Len(entry.message)
                    /\ text = SubSeq(entry.message, 1, Len(text))
                    /\ Len(entry.message) <= 40 => text = entry.message

Incomplete(event) ==
    \/ Get(event, "type", "") \notin LogTypes \cup {"graph_update", "metric"}
    \/ /\ Get(event, "type", "") = "graph_update"
       /\ ~({"node_id", "activation"} \subseteq DOMAIN event)

\* C23: process_events drops a record that is not one complete recognised
\* shape: applying it leaves the log, every node and the metrics unchanged.
C23_IncompleteRecordDropped ==
    [][(IsApplyStep /\ Incomplete(Head(event_queue)))
          => (entries' = entries /\ nodes' = nodes /\ metrics' = metrics)]_vars

\* C25: draw_line returns for all integer endpoints; the first pixel it
\* passes to draw_pixel is (x1, y1) and the last is (x2, y2), successive
\* pixels differ by at most 1 in x and in y, there are exactly
\* max(|x2 - x1|, |y2 - y1|) + 1 of them, and on the fresh buffer of a
\* device of 4-byte pixels exactly those of them that are on the screen are
\* written: every other byte is as open() left it.
C25_LineWalk ==
    drawn.op \in {"draw_line", "draw_line running"} =>
        LET x1 == drawn.args[1]
            y1 == drawn.args[2]
            x2 == drawn.args[3]
            y2 == drawn.args[4]
            v == drawn.calls
            n == Len(v)
            g == The(info)
            hit == {v[k] : k \in 1 .. n}
        IN /\ drawn.op = "draw_line"
           /\ raised = "None"
           /\ n = Max(Abs(x2 - x1), Abs(y2 - y1)) + 1
           /\ v[1] = <<x1, y1>>
           /\ v[n] = <<x2, y2>>
           /\ \A k \in 1 .. (n - 1) :
                 /\ Abs(v[k + 1][1] - v[k][1]) <= 1
                 /\ Abs(v[k + 1][2] - v[k][2]) <= 1
           /\ \A x \in 0 .. (g.width - 1), y \in 0 .. (g.height - 1) :
                 IF <<x, y>> \in hit
                 THEN PixelIs(fb_bytes, x, y, g, lastCall.color)
                 ELSE \A k \in 0 .. 3 :
                         fb_bytes[y * g.line_length + x * 4 + k] = 0
           /\ \A i \in DOMAIN fb_bytes :
                 i % g.line_length >= 4 * g.width => fb_bytes[i] = 0

\* On the padded geometry a line of slope 1/2 that starts left of the
\* screen and ends right of it has been drawn: five pixels, three of them
\* on the screen.
C25_Witness ==
    /\ drawn = Drawing("draw_line", <<-1, 0, 3, 2>>,
                       <<<<-1, 0>>, <<0, 0>>, <<1, 1>>, <<2, 1>>, <<3, 2>>>>)
    /\ The(info).line_length = 16
    /\ PixelIs(fb_bytes, 1, 1, The(info), <<200, 100, 50>>)
    /\ fb_bytes[PixelOffset(1, 0, The(info))] = 0

\* C26: every call of process_events returns, so update_nodes is reached in
\* every iteration of the main loop, also while the worker keeps putting
\* events on the queue.
C26_DrainReturns == (pcMain = "drain") ~> (pcMain = "advance")

\* C27: no event is lost or duplicated between the worker and the scene:
\* in every state the events put so far are exactly the events taken off
\* by process_events, in order, followed by the events still queued.  (A
\* call of process_events returns only on an empty queue, so when it
\* returns every event put so far has been applied once.)
C27_NoLossNoDuplication == PutEvents = applied \o event_queue

\* Two different events of the feed have been put; process_events has
\* taken the first off and is still running with the second queued.
C27_Witness ==
    /\ pcMain = "drain"
    /\ Len(putLog) = 2
    /\ putLog[1].origin = "feed"
    /\ putLog[1].event # putLog[2].event
    /\ applied = <<putLog[1].event>>
    /\ event_queue = <<putLog[2].event>>

\* C28: when the connected feed ends, the worker stops for good: from
\* reading the feed it never goes back to connect and never into the
\* generator; the step that ends it puts nothing and leaves the main loop
\* and the scene alone, and a stopped worker puts nothing and stays stopped.
C28_EofStopsWorker ==
    [][/\ pcWorker = "recv" =>
             pcWorker' \in {"recv", "lines", "sleep", "stopped"}
       /\ (pcWorker = "recv" /\ running /\ pcWorker' = "stopped") =>
             /\ UNCHANGED <<mainVars, sceneVars, event_queue, putLog>>
             /\ nDemo' = 0
             /\ nConnect' = 1
       /\ pcWorker = "stopped" =>
             /\ pcWorker' = "stopped"
             /\ UNCHANGED <<putLog, nConnect, nDemo, nRounds, lines>>
             /\ Len(event_queue') <= Len(event_queue)]_vars

\* The feed ended after one event, while the loop runs; that event has
\* been applied and two frames have been rendered with the worker gone.
C28_Witness ==
    /\ pcWorker = "stopped"
    /\ running
    /\ nConnect = 1
    /\ nDemo = 0
    /\ Len(putLog) = 1
    /\ applied = PutEvents
    /\ frame_count = 2

\* C29: when open() has failed, run() returns with no descriptor of the
\* device left open: a descriptor opened before the failing geometry query
\* or mapping has been closed by open() or by run().
C29_FailedOpenReleasesFd ==
    (pcMain = "done" /\ fb_mem = "None") => os_fds = {}

\* C30: no drawing call fails on a write outside the mapping: on a live
\* mapping of any geometry open() accepts, clear and draw_pixel (through
\* which every other drawing method writes) raise nothing.
C30_WritesInsideMapping ==
    (fb_mem = "mapped" /\ lastCall.op \in {"clear", "draw_pixel"})
        => raised = "None"
====
